---- MODULE Spec2Model ----
(***************************************************************************)
(* brusque: a two-symbol Turing machine runner (src/src/main.rs).          *)
(*                                                                         *)
(* make_tm parses a description (header count, then state blocks), builds  *)
(* the name table and the transition table; main runs the step loop and    *)
(* prints trace lines.  The model follows the control flow of make_tm and  *)
(* main: one action per loop iteration or straight-line stretch of code.   *)
(*                                                                         *)
(* Conventions: Rust vectors are 0-based, TLA+ sequences 1-based, so       *)
(* tm.states[i] is tm_states[i + 1] and tape[i] is tape[i + 1].  An        *)
(* Option is a sequence of length 0 (None) or 1 (Some).  A panic (failed   *)
(* assert!, expect, index out of range, missing HashMap key) moves pc to   *)
(* "panic" and records which one in err.                                   *)
(***************************************************************************)
EXTENDS Integers, Sequences, FiniteSets, TLC

VARIABLES
    text,               \* the description: header count and the state blocks present
    pc,                 \* position in make_tm / main
    err,                \* which panic ended the run ("" while none)
    states,             \* make_tm: header count (line 134)
    infos,              \* make_tm: Vec<StateInfo>
    state_nums,         \* make_tm: the values of state_num (line 165), one per iteration
    name_map,           \* make_tm: HashMap<String, StateNumber>
    state_map,          \* make_tm: HashMap<StateNumber, String>
    tm_states,          \* tm.states
    start_state,        \* tm.start_state
    verbose,            \* main: -v
    tape,               \* main: Vec<Symbol>
    tape_ix,            \* main: head index (-1 stands for the wrapped usize::MAX)
    current_state,      \* main
    transition,         \* main: the rule selected at line 226 (<<>> before the first)
    overall_step_count, \* main: BigUint accumulator
    step_count,         \* main: usize counter
    iters,              \* number of loop iterations begun (independent count)
    history,            \* the values current_state has taken, oldest first
    out                 \* lines printed to stdout, as [total, name] records

vars == <<text, pc, err, states, infos, state_nums, name_map, state_map,
          tm_states, start_state, verbose, tape, tape_ix, current_state,
          transition, overall_step_count, step_count, iters, history, out>>

----------------------------------------------------------------------------
(* Bounds of the model *)

\* most state blocks present in a description, and largest header count
MaxBlocks == 3
\* most loop iterations of a run that are explored
MaxSteps == 6
\* the fold threshold (1_000_000_000 at line 215), scaled down
FoldThreshold == 3

----------------------------------------------------------------------------
(* Data *)

Symbols == {"A", "B"}
Directions == {"L", "R", "None"}
None == <<>>
Some(x) == <<x>>

ReservedNames == <<"HALT", "ERROR", "REJECT", "OUT", "ACCEPT">>
ReservedSet == {ReservedNames[i] : i \in 1..Len(ReservedNames)}

\* lines 141-145
ReservedNameMap ==
    [n \in ReservedSet |-> (CHOOSE i \in 1..Len(ReservedNames) : ReservedNames[i] = n) - 1]

\* a slip in lines 154-158: the B rule writes A
ReservedStateBad(i) ==
    [on_a |-> [mov |-> "None", write |-> "A", next |-> i],
     on_b |-> [mov |-> "None", write |-> "A", next |-> i]]

\* lines 148-159: the row pushed for reserved index i
ReservedState(i) ==
    [on_a |-> [mov |-> "None", write |-> "A", next |-> i],
     on_b |-> [mov |-> "None", write |-> "B", next |-> i]]

\* HashMap::insert: adds the key or overwrites its value
Insert(m, k, v) == [x \in (DOMAIN m) \cup {k} |-> IF x = k THEN v ELSE m[x]]

\* a slip in line 165: numbering from len() + 1
StateNumBad(m) == Cardinality(DOMAIN m) + 1

\* line 165: name_map.len()
StateNum(m) == Cardinality(DOMAIN m)

\* line 168 left out: a later START block replaces the earlier one
StartAssertOkBad(info, start) == TRUE

\* lines 167-170: the assert on a START block; TRUE when the assert passes
StartAssertOk(info, start) == info.start => start = None

\* line 167 left out: every block is taken as the start
StartAfterBad(info, start, state_num) == Some(state_num)

\* lines 167-170: tm.start_state after a block whose assert passed
StartAfter(info, start, state_num) == IF info.start THEN Some(state_num) ELSE start

\* a lookup that falls back to index 0 for a missing key
LookupBad(m, k) == IF k \in DOMAIN m THEN Some(m[k]) ELSE Some(0)

\* HashMap lookup: Some(value), or None for a missing key
Lookup(m, k) == IF k \in DOMAIN m THEN Some(m[k]) ELSE None

\* lines 179, 184, 212, 218, 248: map[&key] panics on a missing key
HasKey(m, k) == Lookup(m, k) # None

\* a slip in lines 179, 184: the index taken one too high
ResolveTransitionBad(m, t) ==
    [mov |-> t.mov, write |-> t.write, next |-> Lookup(m, t.next)[1] + 1]

\* lines 176-185: a resolved Transition
ResolveTransition(m, t) ==
    [mov |-> t.mov, write |-> t.write, next |-> Lookup(m, t.next)[1]]

\* lines 175-186
ResolveState(m, info) ==
    [on_a |-> ResolveTransition(m, info.on_a), on_b |-> ResolveTransition(m, info.on_b)]

\* lines 189-191: the reverse maps the loop can produce; when two names carry
\* the same number, the HashMap's iteration order decides which one stays
StateMaps(m) ==
    LET nums == {m[x] : x \in DOMAIN m}
        winners == {W \in SUBSET (DOMAIN m) :
                       \A n \in nums : Cardinality({x \in W : m[x] = n}) = 1}
    IN  {[n \in nums |-> CHOOSE x \in W : m[x] = n] : W \in winners}

\* line 208: expect("starting state")
ExpectOk(start) == start # None

\* a fresh vector of n blanks in place of the resized one
ResizeBad(t, n) == [i \in 1..n |-> "A"]

\* Vec::resize(n, Symbol::A)
Resize(t, n) ==
    IF n <= Len(t) THEN SubSeq(t, 1, n)
    ELSE t \o [i \in 1..(n - Len(t)) |-> "A"]

\* line 215 without the threshold test: folds only when verbose
FoldDueBad(v, sc) == v

\* line 215
FoldDue(v, sc) == v \/ sc % FoldThreshold = 0

\* a fold that counts the iteration but drops the steps counted before it
FoldBad(overall, sc) == overall + 1

\* line 216: the accumulator after a fold
Fold(overall, sc) == overall + sc

\* the final total without the part still held by the bounded counter
FinalTotalBad(overall, sc) == overall

\* line 248: the total of the final line
FinalTotal(overall, sc) == overall + sc

\* line 221 with > for >=: no growth when the head is exactly at the end
GrowBad(t, ix) == IF ix > Len(t) THEN Resize(t, ix * 2) ELSE t

\* lines 221-223
Grow(t, ix) == IF ix >= Len(t) THEN Resize(t, ix * 2) ELSE t

\* lines 226-230
SelectTransition(state, sym) == IF sym = "A" THEN state.on_a ELSE state.on_b

\* line 235 with <= for <: the first user state halts the engine too
IsTerminalBad(s) == s <= 5

\* line 235
IsTerminal(s) == s < 5

\* lines 239-246 (L at index 0 is handled by the caller)
MoveHead(ix, mov) ==
    CASE mov = "L" -> ix - 1
      [] mov = "R" -> ix + 1
      [] OTHER -> ix

\* lines 235-237 placed after the match: the head moves before the halt
HeadAfterBad(s, ix, mov) == MoveHead(ix, mov)

\* lines 235-246: the head index after a transition leading to state s
HeadAfter(s, ix, mov) == IF IsTerminal(s) THEN ix ELSE MoveHead(ix, mov)

\* lines 221-246 on (table, current state, tape, head): one forced iteration
\* of the loop body, counters and printing left out
LoopBody(table, cur, t, ix) ==
    LET t1 == Grow(t, ix)
        tr == SelectTransition(table[cur + 1], t1[ix + 1])
    IN  [tape |-> [t1 EXCEPT ![ix + 1] = tr.write],
         current_state |-> tr.next,
         tape_ix |-> HeadAfter(tr.next, ix, tr.mov),
         transition |-> tr]

----------------------------------------------------------------------------
(* Descriptions explored *)

UserNames == {"q0", "q1"}

\* Family 1 varies what the table builder looks at: block names (a reserved
\* name among them), START markers and target names (a reserved one, one
\* that is declared earlier, later, by the block itself or not at all,
\* and one that never is); moves and written symbols are fixed.
BuildTargets == {"HALT", "q1", "zz"}
BuildBlocks ==
    [name : UserNames \cup {"HALT"}, start : BOOLEAN,
     on_a : [next : BuildTargets, mov : {"R"}, write : {"B"}],
     on_b : [next : {"HALT"}, mov : {"L"}, write : {"A"}]]

\* Family 2 varies what the step loop looks at: one START block q0 with
\* every combination of target, move and written symbol on both rules.
RunTargets == {"HALT", "REJECT", "q0"}
RunBlocks ==
    [name : {"q0"}, start : {TRUE},
     on_a : [next : RunTargets, mov : Directions, write : Symbols],
     on_b : [next : RunTargets, mov : Directions, write : Symbols]]

\* Family 3: two blocks, START q0 and q1, that hand control back and forth.
PairBlocks0 ==
    [name : {"q0"}, start : {TRUE},
     on_a : [next : {"q1"}, mov : Directions, write : Symbols],
     on_b : [next : {"HALT"}, mov : {"None"}, write : {"B"}]]
PairBlocks1 ==
    [name : {"q1"}, start : {FALSE},
     on_a : [next : {"q0", "ACCEPT"}, mov : Directions, write : Symbols],
     on_b : [next : {"q0", "OUT"}, mov : {"L", "R"}, write : Symbols]]

\* Blocks after the first count+1 are never looked at, so a description
\* carries at most one block more than its header count.
Descriptions ==
    {d \in [count : 0..MaxBlocks,
            blocks : UNION {[1..m -> BuildBlocks] : m \in 0..MaxBlocks}] :
        Len(d.blocks) <= d.count + 1}
    \cup [count : {1}, blocks : [1..1 -> RunBlocks]]
    \cup [count : {2}, blocks : {<<b0, b1>> : b0 \in PairBlocks0, b1 \in PairBlocks1}]

----------------------------------------------------------------------------
(* make_tm *)

Init ==
    /\ text \in Descriptions
    /\ pc = "header"
    /\ err = ""
    /\ states = 0
    /\ infos = <<>>
    /\ state_nums = <<>>
    /\ name_map = <<>>
    /\ state_map = <<>>
    /\ tm_states = <<>>
    /\ start_state = None
    /\ verbose = FALSE
    /\ tape = <<>>
    /\ tape_ix = 0
    /\ current_state = 0
    /\ transition = <<>>
    /\ overall_step_count = 0
    /\ step_count = 0
    /\ iters = 0
    /\ history = <<>>
    /\ out = <<>>

Panic(why) == pc' = "panic" /\ err' = why

mainVars == <<verbose, tape, tape_ix, current_state, transition,
              overall_step_count, step_count, iters, history, out>>

\* lines 132-160: header, reserved names, reserved rows
ParseHeader ==
    /\ pc = "header"
    /\ states' = text.count
    /\ name_map' = ReservedNameMap
    /\ tm_states' = [i \in 1..StateNum(ReservedNameMap) |-> ReservedState(i - 1)]
    /\ pc' = IF text.count > 0 THEN "first_pass" ELSE "second_pass"
    /\ UNCHANGED <<text, err, infos, state_nums, state_map, start_state, mainVars>>

\* lines 162-172: one iteration of the first loop
ParseState ==
    /\ pc = "first_pass"
    /\ Len(infos) < states
    /\ IF Len(infos) >= Len(text.blocks)
       THEN \* line 163: no state block left in the text
            /\ Panic("parser.state")
            /\ UNCHANGED <<infos, state_nums, name_map, start_state>>
       ELSE LET info == text.blocks[Len(infos) + 1]
                state_num == StateNum(name_map)
            IN  /\ name_map' = Insert(name_map, info.name, state_num)
                /\ state_nums' = Append(state_nums, state_num)
                /\ IF StartAssertOk(info, start_state)
                   THEN /\ start_state' = StartAfter(info, start_state, state_num)
                        /\ infos' = Append(infos, info)
                        /\ pc' = IF Len(infos) + 1 < states
                                 THEN "first_pass" ELSE "second_pass"
                        /\ err' = err
                   ELSE \* line 168
                        /\ Panic("start_state.is_none")
                        /\ UNCHANGED <<infos, start_state>>
    /\ UNCHANGED <<text, states, state_map, tm_states, mainVars>>

\* lines 174-187: one iteration of the second loop
ResolveInfo ==
    /\ pc = "second_pass"
    /\ Len(tm_states) < 5 + Len(infos)
    /\ LET info == infos[Len(tm_states) - 5 + 1]
       IN  IF HasKey(name_map, info.on_a.next) /\ HasKey(name_map, info.on_b.next)
           THEN /\ tm_states' = Append(tm_states, ResolveState(name_map, info))
                /\ UNCHANGED <<pc, err>>
           ELSE \* lines 179, 184
                /\ Panic("name_map")
                /\ UNCHANGED tm_states
    /\ UNCHANGED <<text, states, infos, state_nums, name_map, state_map,
                   start_state, mainVars>>

\* lines 189-192: the reverse map, and make_tm returns
BuildStateMap ==
    /\ pc = "second_pass"
    /\ Len(tm_states) = 5 + Len(infos)
    /\ state_map' \in StateMaps(name_map)
    /\ pc' = "built"
    /\ UNCHANGED <<text, err, states, infos, state_nums, name_map, tm_states,
                   start_state, mainVars>>

----------------------------------------------------------------------------
(* main *)

buildVars == <<text, states, infos, state_nums, name_map, state_map,
               tm_states, start_state>>

\* lines 205-212: the arguments, the initial engine state, the first line
MainStart ==
    /\ pc = "built"
    /\ \E v \in BOOLEAN :
        /\ verbose' = v
        /\ tape' = <<>>
        /\ tape_ix' = 2
        /\ overall_step_count' = 0
        /\ step_count' = 0
        /\ IF ~ExpectOk(start_state)
           THEN \* line 208
                /\ Panic("starting state")
                /\ UNCHANGED <<current_state, history, out>>
           ELSE /\ current_state' = start_state[1]
                /\ history' = <<start_state[1]>>
                /\ IF HasKey(state_map, start_state[1])
                   THEN /\ out' = Append(out, [total |-> 0,
                                               name |-> Lookup(state_map, start_state[1])[1]])
                        /\ pc' = "loop"
                        /\ err' = err
                   ELSE \* line 212
                        /\ Panic("state_map")
                        /\ UNCHANGED out
    /\ UNCHANGED <<buildVars, transition, iters>>

\* lines 214-246: one iteration of the loop
Step ==
    /\ pc = "loop"
    /\ iters < MaxSteps
    /\ iters' = iters + 1
    /\ LET sc == step_count + 1
           fold == FoldDue(verbose, sc)
           total == IF fold THEN Fold(overall_step_count, sc) ELSE overall_step_count
           printed == IF fold /\ HasKey(state_map, current_state)
                      THEN Append(out, [total |-> total,
                                        name |-> Lookup(state_map, current_state)[1]])
                      ELSE out
       IN  /\ overall_step_count' = total
           /\ step_count' = IF fold THEN 0 ELSE sc
           /\ out' = printed
           /\ IF fold /\ ~HasKey(state_map, current_state)
              THEN \* line 218
                   /\ Panic("state_map")
                   /\ UNCHANGED <<tape, tape_ix, current_state, transition, history>>
              ELSE IF tape_ix < 0
              THEN \* line 222 with the wrapped index: capacity overflow
                   /\ Panic("resize")
                   /\ UNCHANGED <<tape, tape_ix, current_state, transition, history>>
              ELSE IF current_state >= Len(tm_states)
              THEN \* line 225
                   /\ Panic("tm.states")
                   /\ tape' = Grow(tape, tape_ix)
                   /\ UNCHANGED <<tape_ix, current_state, transition, history>>
              ELSE IF tape_ix >= Len(Grow(tape, tape_ix))
              THEN \* line 226
                   /\ Panic("tape")
                   /\ tape' = Grow(tape, tape_ix)
                   /\ UNCHANGED <<tape_ix, current_state, transition, history>>
              ELSE LET r == LoopBody(tm_states, current_state, tape, tape_ix)
                   IN  /\ tape' = r.tape
                       /\ current_state' = r.current_state
                       /\ transition' = r.transition
                       /\ history' = Append(history, r.current_state)
                       /\ IF r.tape_ix >= 0
                          THEN /\ tape_ix' = r.tape_ix
                               /\ pc' = IF IsTerminal(r.current_state)
                                        THEN "halt" ELSE "loop"
                               /\ err' = err
                          ELSE \* lines 241-242 at index 0: the debug_assert
                               \* panics, or without it the index wraps
                               \/ /\ Panic("debug_assert")
                                  /\ UNCHANGED tape_ix
                               \/ /\ tape_ix' = r.tape_ix
                                  /\ UNCHANGED <<pc, err>>
    /\ UNCHANGED <<buildVars, verbose>>

\* line 248: the final line
Finish ==
    /\ pc = "halt"
    /\ IF HasKey(state_map, current_state)
       THEN /\ out' = Append(out, [total |-> FinalTotal(overall_step_count, step_count),
                                   name |-> Lookup(state_map, current_state)[1]])
            /\ pc' = "done"
            /\ err' = err
       ELSE /\ Panic("state_map")
            /\ UNCHANGED out
    /\ UNCHANGED <<buildVars, verbose, tape, tape_ix, current_state, transition,
                   overall_step_count, step_count, iters, history>>

Next ==
    \/ ParseHeader
    \/ ParseState
    \/ ResolveInfo
    \/ BuildStateMap
    \/ MainStart
    \/ Step
    \/ Finish

Spec == Init /\ [][Next]_vars

----------------------------------------------------------------------------
(* Shorthands for the properties *)

\* make_tm has returned
MadeTm == pc \in {"built", "loop", "halt", "done"}
              \/ (pc = "panic" /\ err \in {"starting state", "state_map", "resize",
                                           "tm.states", "tape", "debug_assert"})

\* the step loop has been entered
Executing == pc \in {"loop", "halt", "done"}
                 \/ (pc = "panic" /\ err \in {"resize", "tm.states", "tape",
                                              "debug_assert"})
                 \/ (pc = "panic" /\ err = "state_map" /\ out # <<>>)

TypeOK ==
    /\ pc \in {"header", "first_pass", "second_pass", "built", "loop", "halt",
               "done", "panic"}
    /\ Len(start_state) <= 1
    /\ tape_ix >= -1

----------------------------------------------------------------------------
(* Properties of make_tm *)

Min(a, b) == IF a < b THEN a ELSE b

\* the blocks of the text that the first loop can reach
Parsed == SubSeq(text.blocks, 1, Min(text.count, Len(text.blocks)))

\* positions of the START blocks among a sequence of blocks
StartBlocks(bs) == {k \in 1..Len(bs) : bs[k].start}

\* C1 as stated: whenever make_tm returns, the table has N+5 rows, a start
\* index is set, and the first parsed block was assigned index 5.
C1_BuiltHasStart ==
    pc = "built" =>
        /\ Len(tm_states) = states + 5
        /\ Len(start_state) = 1
        /\ (states >= 1 => state_nums[1] = 5)

\* C1 amended: whenever make_tm has returned, the table has N+5 rows, the
\* first parsed block was assigned index 5, at most one block carried START
\* and the start index is set exactly when one did; it is set whenever the
\* step loop has been entered.
C1_BuiltShape ==
    MadeTm =>
        /\ Len(tm_states) = states + 5
        /\ Len(infos) = states
        /\ (states >= 1 => state_nums[1] = 5)
        /\ Cardinality(StartBlocks(infos)) <= 1
        /\ (start_state = None <=> StartBlocks(infos) = {})
        /\ \A k \in StartBlocks(infos) : start_state = Some(state_nums[k])
        /\ (Executing => Cardinality(StartBlocks(infos)) = 1)

C1_Witness ==
    /\ pc = "loop"
    /\ states = 2
    /\ Len(tm_states) = 7
    /\ start_state = Some(6)

\* C2: after a successful build the k-th parsed block (k = 0, 1, ...) was
\* assigned index 5+k, its name maps to 5+k, and row 5+k holds its rules.
C2_ParseOrderIndices ==
    MadeTm =>
        \A k \in 1..Len(infos) :
            /\ state_nums[k] = 4 + k
            /\ Lookup(name_map, infos[k].name) = Some(4 + k)
            /\ tm_states[state_nums[k] + 1] = ResolveState(name_map, infos[k])

\* C3: after a successful build the reserved names map to HALT=0, ERROR=1,
\* REJECT=2, OUT=3, ACCEPT=4, and every rule whose target is a reserved
\* name leads to that index.
C3_ReservedIndicesFixed ==
    MadeTm =>
        /\ \A i \in 1..Len(ReservedNames) :
              Lookup(name_map, ReservedNames[i]) = Some(i - 1)
        /\ \A k \in 1..Len(infos) : \A i \in 1..Len(ReservedNames) :
              /\ infos[k].on_a.next = ReservedNames[i] => tm_states[5 + k].on_a.next = i - 1
              /\ infos[k].on_b.next = ReservedNames[i] => tm_states[5 + k].on_b.next = i - 1

\* position of the second START block among bs (when there are two)
SecondStart(bs) ==
    CHOOSE j \in StartBlocks(bs) :
        Cardinality({k \in StartBlocks(bs) : k < j}) = 1

FirstStart(bs) == CHOOSE j \in StartBlocks(bs) : \A k \in StartBlocks(bs) : j <= k

\* C4: with two or more START blocks among the parsed blocks, the build
\* never gets past the second of them: make_tm does not return, nothing is
\* printed, the only panic is the assert of line 168 raised while that block
\* is handled, and the start index is still the first START block's.
C4_SecondStartFails ==
    Cardinality(StartBlocks(Parsed)) >= 2 =>
        /\ ~MadeTm
        /\ pc # "second_pass"
        /\ out = <<>>
        /\ Len(infos) < SecondStart(Parsed)
        /\ pc = "panic" =>
              /\ err = "start_state.is_none"
              /\ Len(infos) = SecondStart(Parsed) - 1
              /\ Len(state_nums) = SecondStart(Parsed)
              /\ start_state = Some(state_nums[FirstStart(Parsed)])

C4_Witness ==
    /\ Cardinality(StartBlocks(Parsed)) >= 2
    /\ pc = "panic"
    /\ err = "start_state.is_none"
    /\ Len(infos) = 2

\* C5: with no START block among the parsed blocks, the step loop is never
\* entered and no line is ever printed; the run can only end in a panic.
C5_NoStartNoTrace ==
    StartBlocks(Parsed) = {} =>
        /\ out = <<>>
        /\ ~Executing
        /\ start_state = None
        /\ pc \in {"header", "first_pass", "second_pass", "built", "panic"}
        /\ (pc = "panic" /\ MadeTm) => err = "starting state"

C5_Witness ==
    /\ StartBlocks(Parsed) = {}
    /\ Len(Parsed) = 2
    /\ pc = "panic"
    /\ err = "starting state"
    /\ out = <<>>

\* names a transition of the parsed blocks may refer to
Declared == ReservedSet \cup {Parsed[k].name : k \in 1..Len(Parsed)}

\* some rule of a parsed block names an undeclared target
UndeclaredTarget ==
    \E k \in 1..Len(Parsed) :
        Parsed[k].on_a.next \notin Declared \/ Parsed[k].on_b.next \notin Declared

\* C6: when a rule of a parsed block names a target that is neither reserved
\* nor the name of a parsed block, make_tm never returns and nothing runs or
\* is printed.
C6_UndeclaredTargetFails ==
    UndeclaredTarget =>
        /\ ~MadeTm
        /\ ~Executing
        /\ out = <<>>
        /\ Len(tm_states) < 5 + states

C6_Witness ==
    /\ UndeclaredTarget
    /\ pc = "panic"
    /\ err = "name_map"
    /\ Len(infos) = states
    /\ states >= 2

\* C7: rows are resolved only once all N blocks are recorded, and a rule of
\* block i naming a later block j leads to the index assigned to block j.
C7_ForwardReference ==
    Len(tm_states) > 5 =>
        /\ Len(infos) = states
        /\ \A i \in 1..(Len(tm_states) - 5) : \A j \in (i + 1)..Len(infos) :
              /\ infos[i].on_a.next = infos[j].name =>
                    tm_states[5 + i].on_a.next = state_nums[j]
              /\ infos[i].on_b.next = infos[j].name =>
                    tm_states[5 + i].on_b.next = state_nums[j]

\* C8: a description whose header count differs from the number of blocks
\* present never builds.
C8_CountMismatchFails ==
    text.count # Len(text.blocks) => ~MadeTm

----------------------------------------------------------------------------
(* Properties of the step loop *)

\* C9: rows 0..4 send each symbol back to the same state, write it back and
\* do not move; one more iteration of the loop body from a halted engine
\* leaves tape, head and state as they are.
C9_ReservedAbsorbing ==
    Len(tm_states) >= 5 =>
        /\ \A i \in 0..4 :
              /\ tm_states[i + 1].on_a = [mov |-> "None", write |-> "A", next |-> i]
              /\ tm_states[i + 1].on_b = [mov |-> "None", write |-> "B", next |-> i]
        /\ pc \in {"halt", "done"} =>
              LET r == LoopBody(tm_states, current_state, tape, tape_ix)
                  rr == LoopBody(tm_states, r.current_state, r.tape, r.tape_ix)
              IN  /\ r.tape = tape /\ rr.tape = tape
                  /\ r.tape_ix = tape_ix /\ rr.tape_ix = tape_ix
                  /\ r.current_state = current_state
                  /\ rr.current_state = current_state

C9_Witness ==
    /\ pc = "done"
    /\ tape[tape_ix + 1] = "B"
    /\ current_state = 2

\* C10: an iteration that leads to a reserved state halts in that iteration,
\* with the rule's symbol written at the cell that was read and the head
\* left on that cell; an iteration that leads to a user state does not halt.
C10_HaltBeforeMove ==
    [][(pc = "loop" /\ pc' # "panic" /\ iters' # iters) =>
          /\ pc' = "halt" <=> IsTerminal(current_state')
          /\ pc' = "halt" =>
                /\ current_state' = transition'.next
                /\ tape'[tape_ix + 1] = transition'.write
                /\ tape_ix' = tape_ix]_vars

C10_Witness ==
    /\ pc = "halt"
    /\ transition.mov = "L"
    /\ transition.write = "B"
    /\ iters >= 2

\* C11: a step never shortens the tape and never changes a cell other than
\* the one under the head; when it lengthens the tape, every cell below the
\* old length keeps its symbol (the resized tape starts with the old one) and
\* every new cell holds A, the cell written in that step apart.
C11_GrowthPreservesCells ==
    [][/\ Len(tape') >= Len(tape)
       /\ \A i \in 1..Len(tape) : i # tape_ix + 1 => tape'[i] = tape[i]
       /\ Len(tape') > Len(tape) =>
             /\ SubSeq(Grow(tape, tape_ix), 1, Len(tape)) = tape
             /\ \A i \in 1..Len(tape) : tape'[i] = tape[i]
             /\ \A i \in (Len(tape) + 1)..Len(tape') :
                   /\ Grow(tape, tape_ix)[i] = "A"
                   /\ i # tape_ix + 1 => tape'[i] = "A"]_vars

C11_Witness ==
    /\ Len(tape) = 8
    /\ tape[3] = "B"
    /\ tape[4] = "B"
    /\ tape[6] = "A"

\* C12: accumulator plus bounded counter equals the number of iterations
\* begun, in every state of a run, verbose or not; in a halted run that is
\* the number of transitions applied, and the final line reports it.
C12_StepCountExact ==
    /\ Executing => overall_step_count + step_count = iters
    /\ pc \in {"halt", "done"} => iters = Len(history) - 1
    /\ pc = "done" => out[Len(out)].total = iters

C12_Witness ==
    /\ pc = "done"
    /\ ~verbose
    /\ iters > FoldThreshold
    /\ overall_step_count = FoldThreshold
    /\ step_count > 0
    /\ out[Len(out)].total = iters

\* C13: the trace of a halted run is one initial line with total 0 and the
\* name of the block that carries START, then fold lines only, then one
\* final line with the final total and a reserved name.
C13_TraceShape ==
    pc = "done" =>
        /\ Len(out) >= 2
        /\ out[1] = [total |-> 0, name |-> infos[FirstStart(infos)].name]
        /\ \A k \in 2..(Len(out) - 1) :
              /\ out[k].total \in 1..iters
              /\ FoldDue(verbose, out[k].total)
        /\ out[Len(out)].total = iters
        /\ out[Len(out)].name \in ReservedSet

\* C14: no step indexes the tape out of range.  Every step that reads and
\* writes a cell does so at a head index below the length of the tape as
\* grown in that step, and a step that starts with the head at or beyond the
\* end grows the tape to twice the head index first; the run starts with an
\* empty tape and the head at 2.
C14_HeadInsideTape ==
    /\ [](err # "tape")
    /\ []((pc = "loop" /\ iters = 0) => (tape = <<>> /\ tape_ix = 2))
    /\ [][(pc = "loop" /\ history' # history) =>
             /\ tape_ix >= 0
             /\ tape_ix < Len(tape')
             /\ tape_ix >= Len(tape) => Len(tape') >= 2 * tape_ix]_vars

C14_Witness ==
    /\ pc = "loop"
    /\ Len(tape) = 8
    /\ tape_ix = 5
    /\ Len(history) = 4

\* C15: the head starts at 2 and a step is only ever begun with the head at
\* 0 or above: a Left move at index 0 that does not halt ends the run there,
\* so no line is printed and no iteration is counted beyond the transitions
\* applied.
C15_LeftAtZeroIsFatal ==
    /\ (pc = "loop" /\ iters = 0) => tape_ix = 2
    /\ pc = "loop" => tape_ix >= 0
    /\ (pc = "panic" /\ Executing) =>
          /\ iters = Len(history) - 1
          /\ \A k \in 1..Len(out) : out[k].total <= Len(history) - 1

\* C16: the bounded counter stays below the fold threshold: without -v it is
\* the number of iterations modulo the threshold, the accumulator holding
\* the rest, so it is folded exactly when it reaches the threshold; with -v
\* it is 0 after every iteration.
C16_CounterBounded ==
    Executing =>
        /\ step_count \in 0..(FoldThreshold - 1)
        /\ verbose => step_count = 0
        /\ ~verbose =>
              /\ step_count = iters % FoldThreshold
              /\ overall_step_count = iters - step_count

C16_Witness ==
    /\ pc = "loop"
    /\ ~verbose
    /\ step_count = FoldThreshold - 1
    /\ overall_step_count = FoldThreshold

\* the name the reverse table holds for state index i
NameOf(i) == Lookup(state_map, i)[1]

\* C17 as stated: every line pairs its total t with the name of the state
\* reached after t transitions (checked once that state has been reached).
C17_LineAfterTotalTransitions ==
    Executing =>
        \A k \in 1..Len(out) :
            out[k].total + 1 <= Len(history) =>
                out[k].name = NameOf(history[out[k].total + 1])

\* C17 amended: the initial line pairs 0 with the start state and the final
\* line pairs the final total t with the state after t transitions; a fold
\* line pairs its total t, which counts the iteration just begun, with the
\* state after t-1 transitions.
C17_LinePairsTotalAndState ==
    Executing =>
        /\ Len(out) >= 1
        /\ out[1] = [total |-> 0, name |-> NameOf(history[1])]
        /\ \A k \in 2..Len(out) :
              IF pc = "done" /\ k = Len(out)
              THEN /\ out[k].total = Len(history) - 1
                   /\ out[k].name = NameOf(history[out[k].total + 1])
              ELSE /\ out[k].total \in 1..Len(history)
                   /\ out[k].name = NameOf(history[out[k].total])

C17_Witness ==
    /\ pc = "done"
    /\ verbose
    /\ Len(out) >= 4
    /\ out[2].name # out[3].name
    /\ out[Len(out)].total = out[Len(out) - 1].total

\* C18: the loop is left normally only through a reserved state.  The start
\* index is 5 or more, a halted engine is in one of the states 0..4 after at
\* least one transition (so the final total is at least 1), the loop is only
\* ever in a user state, and there the next iteration is always enabled (up
\* to the number of iterations explored); the only other way out is the
\* fault of a head driven below 0.
C18_StopsOnlyInReserved ==
    /\ start_state # None => start_state[1] >= 5
    /\ pc \in {"halt", "done"} =>
          /\ current_state \in 0..4
          /\ iters >= 1
          /\ Len(history) >= 2
    /\ pc = "done" => out[Len(out)].total >= 1
    /\ pc = "loop" => current_state >= 5
    /\ (pc = "loop" /\ iters < MaxSteps) => ENABLED Step
    /\ (pc = "panic" /\ Executing) =>
          /\ err \in {"debug_assert", "resize"}
          /\ current_state >= 5
          /\ tape_ix <= 0

C18_Witness ==
    /\ pc = "loop"
    /\ iters >= 5
    /\ current_state >= 5
    /\ tape_ix >= 0
    /\ \A k \in 1..Len(history) : history[k] >= 5

\* C19: every resolved target and the start index lie in 0..N+4, the built
\* table has N+5 rows, and in every engine state the current state is the
\* index of a row whose lookup yields a rule for either symbol; the row
\* lookup of line 225 never fails.
C19_TargetsInRange ==
    /\ \A k \in 1..Len(tm_states) :
          /\ tm_states[k].on_a.next \in 0..(states + 4)
          /\ tm_states[k].on_b.next \in 0..(states + 4)
    /\ start_state # None => start_state[1] \in 0..(states + 4)
    /\ MadeTm => Len(tm_states) = states + 5
    /\ Executing =>
          /\ current_state \in 0..(Len(tm_states) - 1)
          /\ \A sym \in Symbols :
                SelectTransition(tm_states[current_state + 1], sym) \in
                    [next : 0..(states + 4), mov : Directions, write : Symbols]
    /\ err # "tm.states"

C19_Witness ==
    /\ pc = "loop"
    /\ states = 2
    /\ current_state = 6
    /\ transition # <<>>
    /\ transition.next = 6

\* C20: after a successful build the name table is one-to-one between its
\* names and the indices 0..N+4, the reverse table has a name for each of
\* these indices, and no name lookup for a trace line fails.
C20_NameTableBijection ==
    /\ MadeTm =>
          /\ \A x, y \in DOMAIN name_map : name_map[x] = name_map[y] => x = y
          /\ {name_map[x] : x \in DOMAIN name_map} = 0..(states + 4)
          /\ DOMAIN state_map = 0..(states + 4)
          /\ \A i \in DOMAIN state_map : Lookup(name_map, state_map[i]) = Some(i)
    /\ err # "state_map"

====
